---- MODULE Spec2Model ----
(***************************************************************************)
(* Model of the AI meeting scheduling assistant: request parsing, lookup   *)
(* window resolution, concurrent calendar fetch, conflict resolution, free *)
(* slot search and output formatting.                                      *)
(*                                                                         *)
(* Python str values are tuples of one-character strings, so that          *)
(* `keyword in text` is a substring test and `.lower()` a per-character    *)
(* map.  A naive datetime is a record [ordinal, hour, minute, second]      *)
(* whose ordinal is the proleptic Gregorian day number of date.toordinal() *)
(* and an ISO-8601 timestamp string is a record of its printed fields.     *)
(***************************************************************************)
EXTENDS Integers, Sequences, FiniteSets, TLC

\* ------------------------------------------------------------------ str

UpperCase ==
    <<"A","B","C","D","E","F","G","H","I","J","K","L","M",
      "N","O","P","Q","R","S","T","U","V","W","X","Y","Z">>

LowerCase ==
    <<"a","b","c","d","e","f","g","h","i","j","k","l","m",
      "n","o","p","q","r","s","t","u","v","w","x","y","z">>

\* str.lower()
lower(s) ==
    [i \in 1..Len(s) |->
        IF \E k \in 1..Len(UpperCase) : UpperCase[k] = s[i]
        THEN LowerCase[CHOOSE k \in 1..Len(UpperCase) : UpperCase[k] = s[i]]
        ELSE s[i]]

\* `kw in s` for two str values
In(kw, s) ==
    \E i \in 1..(Len(s) - Len(kw) + 1) : SubSeq(s, i, i + Len(kw) - 1) = kw

\* any(keyword in s for keyword in keywords)
AnyIn(keywords, s) ==
    \E k \in 1..Len(keywords) : In(keywords[k], s)

importance_keywords_high ==
    << <<"c","l","i","e","n","t">>,
       <<"c","u","s","t","o","m","e","r">>,
       <<"u","r","g","e","n","t">>,
       <<"c","r","i","t","i","c","a","l">>,
       <<"c","e","o">>,
       <<"b","o","a","r","d">>,
       <<"e","m","e","r","g","e","n","c","y">> >>

importance_keywords_medium ==
    << <<"t","e","a","m">>,
       <<"p","r","o","j","e","c","t">>,
       <<"r","e","v","i","e","w">>,
       <<"p","l","a","n","n","i","n","g">>,
       <<"d","i","s","c","u","s","s","i","o","n">> >>

importance_keywords_low ==
    << <<"l","u","n","c","h">>,
       <<"c","o","f","f","e","e">>,
       <<"b","r","e","a","k">>,
       <<"p","e","r","s","o","n","a","l">>,
       <<"t","r","a","i","n","i","n","g">> >>

critical_keywords ==
    << <<"a","l","l">>,
       <<"t","e","a","m">>,
       <<"e","v","e","r","y","o","n","e">>,
       <<"t","o","g","e","t","h","e","r">> >>

weekend_keywords ==
    << <<"s","a","t","u","r","d","a","y">>,
       <<"s","u","n","d","a","y">>,
       <<"w","e","e","k","e","n","d">>,
       <<"s","a","t">>,
       <<"s","u","n">> >>

manual_weekend_words ==
    << <<"s","a","t","u","r","d","a","y">>,
       <<"s","u","n","d","a","y">>,
       <<"w","e","e","k","e","n","d">> >>

str_feedback == <<"f","e","e","d","b","a","c","k">>

str_weekend == <<"w","e","e","k","e","n","d">>

str_saturday == <<"s","a","t","u","r","d","a","y">>

str_sunday == <<"s","u","n","d","a","y">>

str_thursday == <<"t","h","u","r","s","d","a","y">>

str_monday == <<"m","o","n","d","a","y">>

str_tuesday == <<"t","u","e","s","d","a","y">>

str_wednesday == <<"w","e","d","n","e","s","d","a","y">>

str_friday == <<"f","r","i","d","a","y">>

str_tomorrow == <<"t","o","m","o","r","r","o","w">>

str_next_week == <<"n","e","x","t"," ","w","e","e","k">>

str_next_available_time == <<"n","e","x","t"," ","a","v","a","i","l","a","b","l","e"," ","t","i","m","e">>

str_flexible == <<"f","l","e","x","i","b","l","e">>

str_30_minutes == <<"3","0"," ","m","i","n","u","t","e","s">>

str_half_hour == <<"h","a","l","f"," ","h","o","u","r">>

str_1_hour == <<"1"," ","h","o","u","r">>

str_an_hour == <<"a","n"," ","h","o","u","r">>

str_15_minutes == <<"1","5"," ","m","i","n","u","t","e","s">>

str_9_00 == <<"9",":","0","0">>

str_11_00 == <<"1","1",":","0","0">>

str_10_00 == <<"1","0",":","0","0">>

str_Meeting == <<"M","e","e","t","i","n","g">>

\* ------------------------------------------------------------- datetime

IsLeap(y) ==
    (y % 4 = 0) /\ ((y % 100 # 0) \/ (y % 400 = 0))

DaysInMonth(y, m) ==
    IF m = 2 THEN (IF IsLeap(y) THEN 29 ELSE 28)
    ELSE IF m \in {4, 6, 9, 11} THEN 30 ELSE 31

\* number of days before January 1st of year y
DaysBeforeYear(y) ==
    (y - 1) * 365 + ((y - 1) \div 4) - ((y - 1) \div 100) + ((y - 1) \div 400)

RECURSIVE DaysBeforeMonth(_, _)
DaysBeforeMonth(y, m) ==
    IF m = 1 THEN 0 ELSE DaysBeforeMonth(y, m - 1) + DaysInMonth(y, m - 1)

\* date(y, m, d).toordinal()
ymd2ord(y, m, d) ==
    DaysBeforeYear(y) + DaysBeforeMonth(y, m) + d

\* date.fromordinal(n), as <<year, month, day>>
ord2ymd(n) ==
    LET y == CHOOSE yy \in (n \div 366)..((n \div 365) + 1) :
                 DaysBeforeYear(yy) < n /\ n <= DaysBeforeYear(yy + 1)
        r == n - DaysBeforeYear(y)
        m == CHOOSE mm \in 1..12 :
                 DaysBeforeMonth(y, mm) < r
                 /\ r <= DaysBeforeMonth(y, mm) + DaysInMonth(y, mm)
    IN  <<y, m, r - DaysBeforeMonth(y, m)>>

\* datetime(y, m, d, h, mi, s), naive unless tz is given
datetime(y, m, d, h, mi, s, tz) ==
    [ordinal |-> ymd2ord(y, m, d), hour |-> h, minute |-> mi, second |-> s,
     tzinfo |-> tz]

\* datetime.weekday(): Monday = 0 .. Sunday = 6
weekday(dt) ==
    (dt.ordinal + 6) % 7

\* is_weekend taking Sunday only for the weekend
is_weekend_sunday_only(date_obj) ==
    weekday(date_obj) >= 6

is_weekend(date_obj) ==
    weekday(date_obj) >= 5

\* dt + timedelta(days=n)
PlusDays(dt, n) ==
    [dt EXCEPT !.ordinal = @ + n]

\* dt + timedelta(minutes=n)
PlusMinutes(dt, n) ==
    LET t == dt.hour * 60 + dt.minute + n
    IN  [dt EXCEPT !.ordinal = @ + (t \div 1440),
                   !.hour = (t % 1440) \div 60,
                   !.minute = t % 60]

\* dt + timedelta(hours=n)
PlusHours(dt, n) ==
    PlusMinutes(dt, 60 * n)

\* minutes east of UTC of an aware datetime
UtcOffsetMinutes(tz) ==
    IF tz = "+05:30" THEN 330 ELSE 0

\* (a - b).total_seconds() of two datetimes that are both naive or both aware
TotalSeconds(a, b) ==
    (a.ordinal - b.ordinal) * 86400
    + (a.hour - b.hour) * 3600 + (a.minute - b.minute) * 60
    + (a.second - b.second)
    - (UtcOffsetMinutes(a.tzinfo) - UtcOffsetMinutes(b.tzinfo)) * 60

\* comparing or subtracting a naive and an aware datetime raises TypeError
Comparable(a, b) ==
    (a.tzinfo = "") <=> (b.tzinfo = "")

\* the printed fields of dt, followed by the literal text `offset`
IsoString(dt, offset) ==
    LET ymd == ord2ymd(dt.ordinal)
    IN  [year |-> ymd[1], month |-> ymd[2], day |-> ymd[3],
         hour |-> dt.hour, minute |-> dt.minute, second |-> dt.second,
         offset |-> offset]

\* dt.strftime('%Y-%m-%dT%H:%M:%S+05:30')
strftime(dt) ==
    IsoString(dt, "+05:30")

\* dt.isoformat()
isoformat(dt) ==
    IsoString(dt, dt.tzinfo)

\* whether datetime.fromisoformat(s) accepts s
IsoFormatOk(s) ==
    /\ s.year \in 1..9999
    /\ s.month \in 1..12
    /\ s.day \in 1..DaysInMonth(s.year, s.month)
    /\ s.hour \in 0..23
    /\ s.minute \in 0..59
    /\ s.second \in 0..59
    /\ s.offset \in {"", "+05:30", "+00:00"}

\* datetime.fromisoformat(s) for an accepted s
fromisoformat(s) ==
    datetime(s.year, s.month, s.day, s.hour, s.minute, s.second, s.offset)

\* s.replace(old, new) applied to the offset suffix of a timestamp string
ReplaceOffset(s, old, new) ==
    IF s.offset = old THEN [s EXCEPT !.offset = new] ELSE s

\* place of an offset suffix in character order: '' < '+00:00' < '+05:30' < 'Z'
OffsetRank(offset) ==
    IF offset = "" THEN 0
    ELSE IF offset = "+00:00" THEN 1
    ELSE IF offset = "+05:30" THEN 2
    ELSE 3

\* s1 < s2 for two timestamp strings (character order of the printed text)
StrLess(s1, s2) ==
    LET k1 == <<s1.year, s1.month, s1.day, s1.hour, s1.minute, s1.second,
                OffsetRank(s1.offset)>>
        k2 == <<s2.year, s2.month, s2.day, s2.hour, s2.minute, s2.second,
                OffsetRank(s2.offset)>>
    IN  \E i \in 1..7 : k1[i] < k2[i] /\ \A j \in 1..(i - 1) : k1[j] = k2[j]

\* ------------------------------------------------------- calendar_utils

\* Python None where a timestamp string is expected
None ==
    [year |-> 0, month |-> 0, day |-> 0, hour |-> 0, minute |-> 0,
     second |-> 0, offset |-> "None"]

check_weekend_constraint(time_constraint) ==
    AnyIn(weekend_keywords, lower(time_constraint))

\* days_ahead = target - now.weekday(); if days_ahead <= 0: days_ahead += 7
days_ahead(now, target) ==
    LET d == target - weekday(now)
    IN  IF d <= 0 THEN d + 7 ELSE d

\* dt.replace(hour=0, minute=0, second=0, microsecond=0)
StartOfDay(dt) ==
    [dt EXCEPT !.hour = 0, !.minute = 0, !.second = 0]

\* dt.replace(hour=23, minute=59, second=59, microsecond=0)
EndOfDay(dt) ==
    [dt EXCEPT !.hour = 23, !.minute = 59, !.second = 59]

\* the (start_iso, end_iso) pair of one full day
FullDayRange(day) ==
    <<strftime(StartOfDay(day)), strftime(EndOfDay(day))>>

get_date_range_from_constraint(time_constraint, duration_mins, now) ==
    LET constraint_lower == lower(time_constraint)
        start_time == StartOfDay(now)
        tomorrow == PlusDays(now, 1)
        next_week == PlusDays(now, 7)
    IN  IF check_weekend_constraint(time_constraint) THEN <<None, None>>
        ELSE IF In(str_tomorrow, constraint_lower)
        THEN IF is_weekend(tomorrow) THEN <<None, None>>
             ELSE FullDayRange(tomorrow)
        ELSE IF In(str_next_week, constraint_lower)
        THEN <<strftime(StartOfDay(next_week)),
               strftime(PlusDays(StartOfDay(next_week), 7))>>
        ELSE IF In(str_saturday, constraint_lower)
                \/ In(str_sunday, constraint_lower)
        THEN <<None, None>>
        ELSE IF In(str_thursday, constraint_lower)
        THEN FullDayRange(PlusDays(now, days_ahead(now, 3)))
        ELSE IF In(str_monday, constraint_lower)
        THEN FullDayRange(PlusDays(now, days_ahead(now, 0)))
        ELSE IF In(str_tuesday, constraint_lower)
        THEN FullDayRange(PlusDays(now, days_ahead(now, 1)))
        ELSE IF In(str_wednesday, constraint_lower)
        THEN FullDayRange(PlusDays(now, days_ahead(now, 2)))
        ELSE IF In(str_friday, constraint_lower)
        THEN FullDayRange(PlusDays(now, days_ahead(now, 4)))
        ELSE <<strftime(start_time), strftime(PlusDays(start_time, 7))>>

\* ---------------------------------------------------- conflict_resolver

_get_next_thursday(now) ==
    PlusDays(now, days_ahead(now, 3))

_get_next_monday(now) ==
    PlusDays(now, days_ahead(now, 0))

_get_next_tuesday(now) ==
    PlusDays(now, days_ahead(now, 1))

_get_next_wednesday(now) ==
    PlusDays(now, days_ahead(now, 2))

_get_next_friday(now) ==
    PlusDays(now, days_ahead(now, 4))

\* days_to_monday = (7 - d.weekday()) % 7; if days_to_monday == 0: 7
days_to_monday(d) ==
    LET n == (7 - weekday(d)) % 7
    IN  IF n = 0 THEN 7 ELSE n

\* the while loop of the default branch without its weekend test
RECURSIVE BusinessHourLoop_hours_only(_)
BusinessHourLoop_hours_only(next_slot) ==
    IF next_slot.hour < 9
    THEN BusinessHourLoop_hours_only([next_slot EXCEPT !.hour = 9])
    ELSE IF next_slot.hour > 17
    THEN BusinessHourLoop_hours_only([PlusDays(next_slot, 1) EXCEPT !.hour = 9])
    ELSE next_slot

\* the while loop of _find_optimal_time's default branch
RECURSIVE BusinessHourLoop(_)
BusinessHourLoop(next_slot) ==
    IF is_weekend(next_slot) \/ next_slot.hour < 9 \/ next_slot.hour > 17
    THEN IF is_weekend(next_slot)
         THEN BusinessHourLoop(
                  [PlusDays(next_slot, days_to_monday(next_slot))
                       EXCEPT !.hour = 9])
         ELSE IF next_slot.hour < 9
         THEN BusinessHourLoop([next_slot EXCEPT !.hour = 9])
         ELSE BusinessHourLoop([PlusDays(next_slot, 1) EXCEPT !.hour = 9])
    ELSE next_slot

_find_optimal_time(parsed_request, meeting_duration, now) ==
    LET constraint == parsed_request.time_constraints
        at(d, h, mi) == strftime([d EXCEPT !.hour = h, !.minute = mi])
    IN  IF In(str_thursday, lower(constraint))
        THEN LET thursday == _get_next_thursday(now)
                 base_date == IF is_weekend(thursday)
                              THEN _get_next_monday(now) ELSE thursday
             IN  at(base_date, 10, 30)
        ELSE IF In(str_monday, lower(constraint))
        THEN IF In(str_9_00, constraint)
             THEN at(_get_next_monday(now), 9, 0)
             ELSE at(_get_next_monday(now), 10, 0)
        ELSE IF In(str_tuesday, lower(constraint))
        THEN IF In(str_11_00, constraint)
             THEN at(_get_next_tuesday(now), 11, 0)
             ELSE at(_get_next_tuesday(now), 10, 0)
        ELSE IF In(str_wednesday, lower(constraint))
        THEN IF In(str_10_00, constraint)
             THEN at(_get_next_wednesday(now), 10, 0)
             ELSE at(_get_next_wednesday(now), 10, 0)
        ELSE IF In(str_friday, lower(constraint))
        THEN at(_get_next_friday(now), 10, 0)
        ELSE LET next_slot == [PlusHours(now, 1) EXCEPT !.minute = 0,
                                                         !.second = 0]
             IN  strftime(BusinessHourLoop(next_slot))

\* _get_tomorrow_time with its `if is_weekend(tomorrow)` branch left out
_get_tomorrow_time_any_day(meeting_duration, now) ==
    strftime([PlusDays(now, 1) EXCEPT !.hour = 10, !.minute = 0, !.second = 0])

_get_tomorrow_time(meeting_duration, now) ==
    LET tomorrow == PlusDays(now, 1)
        day == IF is_weekend(tomorrow)
               THEN PlusDays(tomorrow, days_to_monday(tomorrow))
               ELSE tomorrow
    IN  strftime([day EXCEPT !.hour = 10, !.minute = 0, !.second = 0])

\* _find_alternative_time one hour ahead instead of two
_find_alternative_time_one_hour(meeting_duration, now) ==
    strftime([PlusHours(now, 1) EXCEPT !.minute = 0, !.second = 0])

_find_alternative_time(meeting_duration, now) ==
    strftime([PlusHours(now, 2) EXCEPT !.minute = 0, !.second = 0])

\* ------------------------------------------------------ list and dict

\* the elements of a list, as a set
Range(xs) ==
    {xs[i] : i \in 1..Len(xs)}

\* list(set(xs)): the distinct elements of xs in the interpreter's set
\* iteration order, which hash_order enumerates
ListOfSet(xs, hash_order) ==
    LET Member(u) == u \in Range(xs)
    IN  SelectSeq(hash_order, Member)

\* A dict keyed by participant is the list of its items in insertion order.
Keys(d) ==
    {d[i].participant : i \in 1..Len(d)}

\* d[p]
Get(d, p) ==
    d[CHOOSE i \in 1..Len(d) : d[i].participant = p].events

\* d[p] = v
SetItem(d, p, v) ==
    IF p \in Keys(d)
    THEN [i \in 1..Len(d) |->
             IF d[i].participant = p THEN [d[i] EXCEPT !.events = v] ELSE d[i]]
    ELSE Append(d, [participant |-> p, events |-> v])

\* xs.sort(key=lambda x: x['StartTime']) and sorted(xs, key=...): stable
RECURSIVE SortByStartTime(_)
SortByStartTime(xs) ==
    IF xs = <<>> THEN <<>>
    ELSE LET n == Len(xs)
             x == xs[n]
             front == SortByStartTime(SubSeq(xs, 1, n - 1))
             NotAfter(e) == ~StrLess(x.StartTime, e.StartTime)
             After(e) == StrLess(x.StartTime, e.StartTime)
         IN  SelectSeq(front, NotAfter) \o <<x>> \o SelectSeq(front, After)

\* ------------------------------------- calendar_utils.find_free_slots

\* datetime.fromisoformat(s.replace('Z', '+00:00'))
ParseOk(s) ==
    IsoFormatOk(ReplaceOffset(s, "Z", "+00:00"))

ParseTime(s) ==
    fromisoformat(ReplaceOffset(s, "Z", "+00:00"))

\* {'start': t.isoformat(), 'end': (t + timedelta(minutes=d)).isoformat()}
Slot(t, d) ==
    [start |-> isoformat(t), end |-> isoformat(PlusMinutes(t, d))]

\* the `for i in range(len(sorted_events) - 1)` loop of find_free_slots from
\* index i on; raised tells that an exception ended it
RECURSIVE BetweenEvents(_, _, _, _)
BetweenEvents(i, sorted_events, d, slots) ==
    IF i > Len(sorted_events) - 1
    THEN [free_slots |-> slots, raised |-> FALSE]
    ELSE IF ~ParseOk(sorted_events[i].EndTime)
            \/ ~ParseOk(sorted_events[i + 1].StartTime)
    THEN [free_slots |-> slots, raised |-> TRUE]
    ELSE LET event_end == ParseTime(sorted_events[i].EndTime)
             next_event_start == ParseTime(sorted_events[i + 1].StartTime)
         IN  IF ~Comparable(next_event_start, event_end)
             THEN [free_slots |-> slots, raised |-> TRUE]
             ELSE IF TotalSeconds(next_event_start, event_end) >= d * 60
             THEN BetweenEvents(i + 1, sorted_events, d,
                                Append(slots, Slot(event_end, d)))
             ELSE BetweenEvents(i + 1, sorted_events, d, slots)

find_free_slots(evts, d, start_time, end_time) ==
    IF ~ParseOk(start_time) \/ ~ParseOk(end_time) THEN <<>>
    ELSE
    LET day_start == ParseTime(start_time)
        work_start == [day_start EXCEPT !.hour = 9, !.minute = 0]
        work_end == [day_start EXCEPT !.hour = 18, !.minute = 0]
        sorted_events == SortByStartTime(evts)
        n == Len(sorted_events)
    IN  IF n = 0 THEN <<Slot(work_start, d)>>
        ELSE IF ~ParseOk(sorted_events[1].StartTime) THEN <<>>
        ELSE IF ~Comparable(ParseTime(sorted_events[1].StartTime), work_start)
        THEN <<>>
        ELSE
        LET first_start == ParseTime(sorted_events[1].StartTime)
            before_first ==
                IF TotalSeconds(first_start, PlusMinutes(work_start, d)) > 0
                THEN <<Slot(work_start, d)>> ELSE <<>>
            between == BetweenEvents(1, sorted_events, d, before_first)
        IN  IF between.raised THEN between.free_slots
            ELSE IF ~ParseOk(sorted_events[n].EndTime)
            THEN between.free_slots
            ELSE IF ~Comparable(ParseTime(sorted_events[n].EndTime), work_end)
            THEN between.free_slots
            ELSE IF TotalSeconds(PlusMinutes(ParseTime(sorted_events[n].EndTime), d), work_end) <= 0
            THEN Append(between.free_slots,
                        Slot(ParseTime(sorted_events[n].EndTime), d))
            ELSE between.free_slots

\* ---------------------------------------------------- conflict_resolver

importance_levels ==
    <<"high", "medium", "low">>

importance_keywords ==
    <<importance_keywords_high, importance_keywords_medium,
      importance_keywords_low>>

\* the level loop stopping at the first level that has a keyword in the
\* summary, the medium level included
RECURSIVE LevelLoop_first_match(_, _, _)
LevelLoop_first_match(k, summary, importance) ==
    IF k > Len(importance_levels) THEN importance
    ELSE IF AnyIn(importance_keywords[k], summary)
         THEN importance_levels[k]
         ELSE LevelLoop_first_match(k + 1, summary, importance)

\* the `for level, keywords in importance_keywords.items()` loop, from
\* level number k on
RECURSIVE LevelLoop(_, _, _)
LevelLoop(k, summary, importance) ==
    IF k > Len(importance_levels) THEN importance
    ELSE LET found == IF AnyIn(importance_keywords[k], summary)
                      THEN importance_levels[k] ELSE importance
         IN  IF found # "medium" THEN found
             ELSE LevelLoop(k + 1, summary, found)

_analyze_meeting_importance(events) ==
    [i \in 1..Len(events) |->
        [event |-> events[i],
         importance |-> LevelLoop(1, lower(events[i].Summary), "medium"),
         summary |-> events[i].Summary]]

_analyze_conflicts(all_participants_events, meeting_duration) ==
    LET d == all_participants_events
        Free(item) == item.events = <<>>
        Busy(item) == item.events # <<>>
        free_items == SelectSeq(d, Free)
        busy_items == SelectSeq(d, Busy)
        available_participants ==
            [i \in 1..Len(free_items) |-> free_items[i].participant]
        busy_participants ==
            [i \in 1..Len(busy_items) |-> busy_items[i].participant]
    IN  [all_free |-> Len(busy_participants) = 0,
         some_busy |-> 0 < Len(busy_participants)
                       /\ Len(busy_participants) < Len(d),
         all_busy |-> Len(busy_participants) = Len(d),
         available_participants |-> available_participants,
         busy_participants |-> busy_participants,
         conflict_details |->
             [p \in Range(busy_participants) |->
                 _analyze_meeting_importance(Get(d, p))]]

\* _schedule_all_participants inviting the attendees without the sender
_schedule_all_participants_attendees_only(parsed_request, meeting_duration, now) ==
    LET Invited(p) == p # parsed_request.From
    IN  [action |-> "schedule_all",
         recommended_time |->
             _find_optimal_time(parsed_request, meeting_duration, now),
         participants_to_include |->
             SelectSeq(parsed_request.participants, Invited),
         reason |-> <<"All participants are available at the requested time">>,
         meeting_duration |-> meeting_duration]

_schedule_all_participants(parsed_request, meeting_duration, now) ==
    [action |-> "schedule_all",
     recommended_time |->
         _find_optimal_time(parsed_request, meeting_duration, now),
     participants_to_include |-> parsed_request.participants,
     reason |-> <<"All participants are available at the requested time">>,
     meeting_duration |-> meeting_duration]

\* _handle_all_busy answering with the action name of the language model
\* prompt, which is none of the five
_handle_all_busy_find_alternative(parsed_request, meeting_duration, now) ==
    [action |-> "find_alternative",
     recommended_time |-> _get_tomorrow_time(meeting_duration, now),
     participants_to_include |-> parsed_request.participants,
     reason |-> <<"All participants are busy with important meetings. Rescheduling to tomorrow.">>,
     meeting_duration |-> meeting_duration]

_handle_all_busy(parsed_request, meeting_duration, now) ==
    [action |-> "reschedule_tomorrow",
     recommended_time |-> _get_tomorrow_time(meeting_duration, now),
     participants_to_include |-> parsed_request.participants,
     reason |-> <<"All participants are busy with important meetings. Rescheduling to tomorrow.">>,
     meeting_duration |-> meeting_duration]

_reschedule_for_all(parsed_request, meeting_duration, now) ==
    [action |-> "reschedule_tomorrow",
     recommended_time |-> _get_tomorrow_time(meeting_duration, now),
     participants_to_include |-> parsed_request.participants,
     reason |-> <<"All participants are required but some are busy. Rescheduling to tomorrow.">>,
     meeting_duration |-> meeting_duration]

_schedule_with_reschedule(parsed_request, busy_person, meeting_duration, now) ==
    [action |-> "schedule_all_with_reschedule",
     recommended_time |->
         _find_optimal_time(parsed_request, meeting_duration, now),
     participants_to_include |-> parsed_request.participants,
     reason |-> <<"Rescheduling ", busy_person,
                  "'s low-priority meeting to accommodate this important meeting.">>,
     meeting_duration |-> meeting_duration,
     reschedule_needed |-> busy_person]

\* _schedule_partial_meeting inviting every participant of the request to
\* the partial meeting
_schedule_partial_meeting_invite_all(parsed_request, available_participants, busy_participants, meeting_duration, now) ==
    LET optimal_time ==
            _find_optimal_time(parsed_request, meeting_duration, now)
        subject == lower(parsed_request.subject)
        organizer == parsed_request.From
    IN  IF In(str_feedback, subject) /\ Len(available_participants) >= 1
        THEN [action |-> "schedule_partial",
              recommended_time |-> optimal_time,
              participants_to_include |-> parsed_request.participants,
              reason |-> <<"Meeting can proceed with ",
                           available_participants, ". Will update ",
                           busy_participants, " separately.">>,
              meeting_duration |-> meeting_duration,
              follow_up_needed |-> busy_participants]
        ELSE [action |-> "schedule_organizer_first",
              recommended_time |-> optimal_time,
              participants_to_include |->
                  <<organizer>> \o available_participants,
              reason |-> <<"Scheduling with organizer and available participants first. Will arrange separate time with ",
                           busy_participants, ".">>,
              meeting_duration |-> meeting_duration,
              follow_up_meetings |->
                  << [participants |-> <<organizer>> \o busy_participants,
                      time |-> _find_alternative_time(meeting_duration, now),
                      reason |-> <<"Follow-up meeting with previously busy participants">>] >>]

_schedule_partial_meeting(parsed_request, available_participants, busy_participants, meeting_duration, now) ==
    LET optimal_time ==
            _find_optimal_time(parsed_request, meeting_duration, now)
        subject == lower(parsed_request.subject)
        organizer == parsed_request.From
    IN  IF In(str_feedback, subject) /\ Len(available_participants) >= 1
        THEN [action |-> "schedule_partial",
              recommended_time |-> optimal_time,
              participants_to_include |-> available_participants,
              reason |-> <<"Meeting can proceed with ",
                           available_participants, ". Will update ",
                           busy_participants, " separately.">>,
              meeting_duration |-> meeting_duration,
              follow_up_needed |-> busy_participants]
        ELSE [action |-> "schedule_organizer_first",
              recommended_time |-> optimal_time,
              participants_to_include |->
                  <<organizer>> \o available_participants,
              reason |-> <<"Scheduling with organizer and available participants first. Will arrange separate time with ",
                           busy_participants, ".">>,
              meeting_duration |-> meeting_duration,
              follow_up_meetings |->
                  << [participants |-> <<organizer>> \o busy_participants,
                      time |-> _find_alternative_time(meeting_duration, now),
                      reason |-> <<"Follow-up meeting with previously busy participants">>] >>]

\* _handle_partial_conflicts looking at the first conflict of the busy
\* person only
_handle_partial_conflicts_first_conflict(parsed_request, all_participants_events, conflict_analysis, meeting_duration, now) ==
    LET subject == lower(parsed_request.subject)
        requires_all == AnyIn(critical_keywords, subject)
        busy_person == conflict_analysis.busy_participants[1]
        busy_events == conflict_analysis.conflict_details[busy_person]
        has_low_priority_conflict == busy_events[1].importance = "low"
    IN  IF requires_all
        THEN _reschedule_for_all(parsed_request, meeting_duration, now)
        ELSE IF has_low_priority_conflict
        THEN _schedule_with_reschedule(parsed_request, busy_person,
                                       meeting_duration, now)
        ELSE _schedule_partial_meeting(
                 parsed_request,
                 conflict_analysis.available_participants,
                 conflict_analysis.busy_participants,
                 meeting_duration, now)

\* _handle_partial_conflicts asking for a low-priority conflict before it
\* asks whether the subject requires everyone
_handle_partial_conflicts_low_priority_first(parsed_request, all_participants_events, conflict_analysis, meeting_duration, now) ==
    LET subject == lower(parsed_request.subject)
        requires_all == AnyIn(critical_keywords, subject)
        busy_person == conflict_analysis.busy_participants[1]
        busy_events == conflict_analysis.conflict_details[busy_person]
        has_low_priority_conflict ==
            \E i \in 1..Len(busy_events) : busy_events[i].importance = "low"
    IN  IF has_low_priority_conflict
        THEN _schedule_with_reschedule(parsed_request, busy_person,
                                       meeting_duration, now)
        ELSE IF requires_all
        THEN _reschedule_for_all(parsed_request, meeting_duration, now)
        ELSE _schedule_partial_meeting(
                 parsed_request,
                 conflict_analysis.available_participants,
                 conflict_analysis.busy_participants,
                 meeting_duration, now)

_handle_partial_conflicts(parsed_request, all_participants_events, conflict_analysis, meeting_duration, now) ==
    LET subject == lower(parsed_request.subject)
        requires_all == AnyIn(critical_keywords, subject)
        busy_person == conflict_analysis.busy_participants[1]
        busy_events == conflict_analysis.conflict_details[busy_person]
        has_low_priority_conflict ==
            \E i \in 1..Len(busy_events) : busy_events[i].importance = "low"
    IN  IF requires_all
        THEN _reschedule_for_all(parsed_request, meeting_duration, now)
        ELSE IF has_low_priority_conflict
        THEN _schedule_with_reschedule(parsed_request, busy_person,
                                       meeting_duration, now)
        ELSE _schedule_partial_meeting(
                 parsed_request,
                 conflict_analysis.available_participants,
                 conflict_analysis.busy_participants,
                 meeting_duration, now)

resolve_scheduling_conflicts(parsed_request, all_participants_events, meeting_duration, now) ==
    LET conflict_analysis ==
            _analyze_conflicts(all_participants_events, meeting_duration)
    IN  IF conflict_analysis.all_free
        THEN _schedule_all_participants(parsed_request, meeting_duration, now)
        ELSE IF conflict_analysis.some_busy
        THEN _handle_partial_conflicts(parsed_request,
                                       all_participants_events,
                                       conflict_analysis,
                                       meeting_duration, now)
        ELSE _handle_all_busy(parsed_request, meeting_duration, now)

\* ----------------------------------------------------- output_formatter

\* _calculate_end_time setting hour and minute of the start with
\* replace(), which never moves to the next day
_calculate_end_time_same_day(start_time_str, duration_mins) ==
    LET text == ReplaceOffset(start_time_str, "+05:30", "")
        start_time == fromisoformat(text)
        minutes == start_time.hour * 60 + start_time.minute + duration_mins
    IN  IF IsoFormatOk(text)
        THEN strftime([start_time EXCEPT !.hour = (minutes \div 60) % 24,
                                         !.minute = minutes % 60])
        ELSE start_time_str

_calculate_end_time(start_time_str, duration_mins) ==
    LET text == ReplaceOffset(start_time_str, "+05:30", "")
    IN  IF IsoFormatOk(text)
        THEN strftime(PlusMinutes(fromisoformat(text), duration_mins))
        ELSE start_time_str

\* _build_attendees_events adding the new meeting to every participant
_build_attendees_events_add_to_all(included_participants, all_participants_events, meeting_start, meeting_end, meeting_subject, original_request, hash_order) ==
    LET all_participants ==
            ListOfSet(<<original_request.From>> \o original_request.Attendees,
                      hash_order)
        new_meeting_event ==
            [StartTime |-> meeting_start,
             EndTime |-> meeting_end,
             NumAttendees |-> Len(included_participants),
             Attendees |-> included_participants,
             Summary |-> meeting_subject]
        existing(p) ==
            IF p \in Keys(all_participants_events)
            THEN Get(all_participants_events, p) ELSE <<>>
    IN  [i \in 1..Len(all_participants) |->
            [email |-> all_participants[i],
             events |-> SortByStartTime(existing(all_participants[i])
                                        \o <<new_meeting_event>>)]]

_build_attendees_events(included_participants, all_participants_events, meeting_start, meeting_end, meeting_subject, original_request, hash_order) ==
    LET all_participants ==
            ListOfSet(<<original_request.From>> \o original_request.Attendees,
                      hash_order)
        new_meeting_event ==
            [StartTime |-> meeting_start,
             EndTime |-> meeting_end,
             NumAttendees |-> Len(included_participants),
             Attendees |-> included_participants,
             Summary |-> meeting_subject]
        existing(p) ==
            IF p \in Keys(all_participants_events)
            THEN Get(all_participants_events, p) ELSE <<>>
        added(p) ==
            IF p \in Range(included_participants)
            THEN <<new_meeting_event>> ELSE <<>>
    IN  [i \in 1..Len(all_participants) |->
            [email |-> all_participants[i],
             events |-> SortByStartTime(existing(all_participants[i])
                                        \o added(all_participants[i]))]]

_get_scheduling_strategy(resolution_result) ==
    LET action == resolution_result.action
    IN  IF action = "schedule_all"
        THEN "All participants available - direct scheduling"
        ELSE IF action = "schedule_partial"
        THEN "Partial scheduling with available participants"
        ELSE IF action = "reschedule_tomorrow"
        THEN "All busy - rescheduled to next day"
        ELSE IF action = "schedule_organizer_first"
        THEN "Organizer and available participants first, follow-up with busy participants"
        ELSE IF action = "schedule_all_with_reschedule"
        THEN "All participants scheduled with low-priority meeting rescheduled"
        ELSE "Standard scheduling"

\* a dict restricted to the keys in ks
Restrict(f, ks) ==
    [k \in ks |-> f[k]]

_build_metadata(resolution_result) ==
    LET base == [resolution_action |-> resolution_result.action,
                 resolution_reason |-> resolution_result.reason,
                 scheduling_strategy |->
                     _get_scheduling_strategy(resolution_result)]
        optional == {"follow_up_meetings", "follow_up_needed",
                     "reschedule_needed"} \cap DOMAIN resolution_result
    IN  base @@ Restrict(resolution_result, optional)

format_output(original_request, resolution_result, all_participants_events, hash_order) ==
    LET start_time == resolution_result.recommended_time
        duration_mins == resolution_result.meeting_duration
        end_time == _calculate_end_time(start_time, duration_mins)
    IN  [Request_id |-> original_request.Request_id,
         From |-> original_request.From,
         Attendees |->
             _build_attendees_events(
                 resolution_result.participants_to_include,
                 all_participants_events, start_time, end_time,
                 original_request.Subject, original_request, hash_order),
         Subject |-> original_request.Subject,
         EmailContent |-> original_request.EmailContent,
         EventStart |-> start_time,
         EventEnd |-> end_time,
         Duration_mins |-> ToString(duration_mins),
         MetaData |-> _build_metadata(resolution_result)]

\* ---------------------------------------------------- meeting_assistant

\* thread.join(timeout=3)
join_timeout ==
    3

\* dt + timedelta(seconds=n)
PlusSeconds(dt, n) ==
    LET t == dt.hour * 3600 + dt.minute * 60 + dt.second + n
    IN  [dt EXCEPT !.ordinal = @ + (t \div 86400),
                   !.hour = (t % 86400) \div 3600,
                   !.minute = (t % 3600) \div 60,
                   !.second = t % 60]

\* the empty str where a timestamp string is expected
EmptyStr ==
    [year |-> 0, month |-> 0, day |-> 0, hour |-> 0, minute |-> 0,
     second |-> 0, offset |-> ""]

_manual_parse_request(data, hash_order) ==
    LET participants == ListOfSet(<<data.From>> \o data.Attendees, hash_order)
        email_content == lower(data.EmailContent)
        duration ==
            IF In(str_30_minutes, email_content)
               \/ In(str_half_hour, email_content) THEN 30
            ELSE IF In(str_1_hour, email_content)
                    \/ In(str_an_hour, email_content) THEN 60
            ELSE IF In(str_15_minutes, email_content) THEN 15
            ELSE 30
        email_lower == lower(email_content)
        time_constraints ==
            IF AnyIn(manual_weekend_words, email_lower) THEN str_weekend
            ELSE IF In(str_thursday, email_lower) THEN str_thursday
            ELSE IF In(str_monday, email_lower) THEN str_monday
            ELSE IF In(str_tuesday, email_lower) THEN str_tuesday
            ELSE IF In(str_wednesday, email_lower) THEN str_wednesday
            ELSE IF In(str_friday, email_lower) THEN str_friday
            ELSE IF In(str_tomorrow, email_lower) THEN str_tomorrow
            ELSE str_next_available_time
    IN  [participants |-> participants,
         meeting_duration |-> duration,
         time_constraints |-> time_constraints,
         subject |-> data.Subject,
         start_time |-> None,
         From |-> data.From]

\* ai is the outcome of self.ai_agent.parse_email: [ok |-> FALSE] when the
\* agent is missing or the call raises, else [ok |-> TRUE, reply |-> dict]
_parse_meeting_request(data, hash_order, ai) ==
    LET manual_result == _manual_parse_request(data, hash_order)
        Field(k) == IF k \in DOMAIN ai.reply THEN ai.reply[k]
                    ELSE manual_result[k]
    IN  IF ai.ok /\ manual_result.time_constraints = str_next_available_time
        THEN [manual_result EXCEPT
                  !.meeting_duration = Field("meeting_duration"),
                  !.time_constraints = Field("time_constraints")]
        ELSE manual_result

_create_weekend_rejection_response(data) ==
    [Request_id |-> data.Request_id,
     From |-> data.From,
     Attendees |-> data.Attendees,
     Subject |-> data.Subject,
     EmailContent |-> data.EmailContent,
     EventStart |-> EmptyStr,
     EventEnd |-> EmptyStr,
     Duration_mins |-> "",
     MetaData |-> [status |-> "rejected",
                   reason |-> "Its weekends no meetings are possible",
                   message |-> "Weekend meetings are not allowed. Please schedule during business days (Monday-Friday)."]]

_create_error_response(data, error_message) ==
    [Request_id |-> data.Request_id,
     From |-> data.From,
     Attendees |-> data.Attendees,
     Subject |-> data.Subject,
     EmailContent |-> data.EmailContent,
     EventStart |-> EmptyStr,
     EventEnd |-> EmptyStr,
     Duration_mins |-> "30",
     MetaData |-> [error |-> error_message, status |-> "failed"]]

\* the except clause of your_meeting_assistant, for an exception whose
\* str() is error_message
HandleException(data, error_message) ==
    IF error_message = "WEEKEND_MEETING_REQUESTED"
    THEN _create_weekend_rejection_response(data)
    ELSE _create_error_response(data, error_message)

\* ------------------------------------------------------- sample inputs

subject_project_sync ==
    <<"P","r","o","j","e","c","t"," ","s","y","n","c">>

subject_team_sync ==
    <<"T","e","a","m"," ","s","y","n","c">>

subject_feedback_round ==
    <<"F","e","e","d","b","a","c","k"," ","r","o","u","n","d">>

subject_weekly_call ==
    <<"W","e","e","k","l","y"," ","c","a","l","l">>

subject_saturday_planning ==
    <<"S","a","t","u","r","d","a","y"," ","p","l","a","n","n","i","n","g">>

content_thursday ==
    <<"L","e","t"," ","u","s"," ","m","e","e","t"," ","T","h","u","r","s","d","a","y"," ","f","o","r"," ","3","0"," ","m","i","n","u","t","e","s">>

content_monday ==
    <<"R","e","v","i","e","w"," ","o","n"," ","M","o","n","d","a","y",","," ","1","5"," ","m","i","n","u","t","e","s">>

content_tomorrow ==
    <<"C","a","n"," ","w","e"," ","t","a","l","k"," ","t","o","m","o","r","r","o","w"," ","f","o","r"," ","1"," ","h","o","u","r">>

content_weekend ==
    <<"C","a","t","c","h"," ","u","p"," ","o","v","e","r"," ","t","h","e"," ","W","e","e","k","e","n","d">>

content_saturday ==
    <<"S","y","n","c"," ","o","n"," ","S","a","t","u","r","d","a","y"," ","f","o","r"," ","h","a","l","f"," ","h","o","u","r">>

content_vague ==
    <<"Q","u","i","c","k"," ","s","y","n","c"," ","s","o","o","n">>

constraint_next_week ==
    <<"n","e","x","t"," ","w","e","e","k">>

constraint_Sunday ==
    <<"S","u","n","d","a","y"," ","m","o","r","n","i","n","g">>

constraint_monday_9 ==
    <<"M","o","n","d","a","y"," ","9",":","0","0">>

constraint_tuesday_11 ==
    <<"t","u","e","s","d","a","y"," ","1","1",":","0","0">>

summary_coffee_break ==
    <<"C","o","f","f","e","e"," ","b","r","e","a","k">>

summary_client_call ==
    <<"C","l","i","e","n","t"," ","c","a","l","l">>

summary_standup ==
    <<"S","t","a","n","d","u","p">>

summary_client_lunch ==
    <<"C","l","i","e","n","t"," ","L","U","N","C","H">>

summary_team_lunch ==
    <<"T","e","a","m"," ","l","u","n","c","h">>

\* ---------------------------------------------------------------- state

VARIABLES
    pc,                 \* position of the request in your_meeting_assistant
    now,                \* the wall clock, as datetime.now() reads it
    hash_order,         \* the interpreter's iteration order of a set of str
    data,               \* the incoming request JSON
    parsed_request,     \* result of _parse_meeting_request
    window_now,         \* the `now` get_date_range_from_constraint read
    date_range,         \* (start_time, end_time) of the calendar lookup
    threads,            \* state of each participant's fetch_calendar thread
    results,            \* the dict the fetch threads write into
    join_i,             \* index of the thread being joined
    resolution_result,  \* result of _resolve_conflicts
    final_output,       \* the response returned to the caller
    events,             \* find_free_slots: the events argument
    duration_mins,      \* find_free_slots: the duration_mins argument
    free_slots,         \* find_free_slots: the returned list
    meeting_importance  \* _analyze_meeting_importance: the returned list

vars ==
    <<pc, now, hash_order, data, parsed_request, window_now, date_range,
      threads, results, join_i, resolution_result, final_output,
      events, duration_mins, free_slots, meeting_importance>>

requestVars ==
    <<pc, now, hash_order, data, parsed_request, window_now, date_range,
      threads, results, join_i, resolution_result, final_output>>

slotVars ==
    <<events, duration_mins, free_slots, meeting_importance>>

\* --------------------------------------------------------------- bounds

\* number of consecutive days the reference instant is drawn from
NowDays ==
    7

\* the first reference day: Monday 2025-07-28
FirstDay ==
    ymd2ord(2025, 7, 28)

Users ==
    <<"a@x.com", "b@x.com", "c@x.com">>

\* every ordering of the elements of set S
Orderings(S) ==
    {s \in [1..Cardinality(S) -> S] : \A i, j \in 1..Cardinality(S) : s[i] = s[j] => i = j}

DayAt(d, hms) ==
    [ordinal |-> d, hour |-> hms[1], minute |-> hms[2], second |-> hms[3],
     tzinfo |-> ""]

ReferenceDays ==
    FirstDay..(FirstDay + NowDays - 1)

\* reference instants of the request runs: every reference day for a
\* request of at most two participants, the first one for a larger request
RequestNows(request) ==
    {DayAt(d, <<23, 59, 58>>) :
        d \in IF Len(request.Attendees) < 2 THEN ReferenceDays ELSE {FirstDay}}

AttendeeLists ==
    {<<>>, <<Users[2]>>, <<Users[2], Users[3]>>}

RequestSubjects ==
    {subject_project_sync, subject_saturday_planning}

RequestContents ==
    {content_thursday, content_monday, content_tomorrow, content_weekend,
     content_saturday, content_vague}

\* every subject and email content for a request of at most two
\* participants, one of each for a larger request
Requests ==
    {r \in [Request_id : {"req-1"}, From : {Users[1]},
            Attendees : AttendeeLists, Subject : RequestSubjects,
            EmailContent : RequestContents] :
        Len(r.Attendees) >= 2 =>
            /\ r.Subject = subject_project_sync
            /\ r.EmailContent = content_thursday}

\* what the language model may answer for a vague email
AIOutcomes ==
    {[ok |-> FALSE],
     [ok |-> TRUE, reply |-> [meeting_duration |-> 45,
                              time_constraints |-> constraint_next_week]],
     [ok |-> TRUE, reply |-> [meeting_duration |-> 30,
                              time_constraints |-> constraint_Sunday]],
     [ok |-> TRUE, reply |-> [meeting_duration |-> 30]]}

\* a calendar event of the looked-up day, given as the API returns it
Event(day, h1, m1, h2, m2, summary) ==
    [StartTime |-> [day EXCEPT !.hour = h1, !.minute = m1],
     EndTime |-> [day EXCEPT !.hour = h2, !.minute = m2],
     NumAttendees |-> 1,
     Attendees |-> <<"SELF">>,
     Summary |-> summary]

\* the event lists a participant's calendar may hold in the lookup window
CalendarOptions(start_iso) ==
    {<<>>,
     <<Event(start_iso, 10, 0, 11, 0, summary_coffee_break)>>,
     <<Event(start_iso, 10, 30, 11, 30, summary_client_call)>>}

NoRequest ==
    [participants |-> <<>>, meeting_duration |-> 0, time_constraints |-> <<>>,
     subject |-> <<>>, start_time |-> None, From |-> ""]

NoResult ==
    [action |-> "none"]

NoOutput ==
    [MetaData |-> [status |-> "none"]]

SlotsIdle ==
    /\ events = <<>>
    /\ duration_mins = 0
    /\ free_slots = <<>>
    /\ meeting_importance = <<>>

\* ------------------------------------------------------ the request run

Init ==
    /\ pc = "parse"
    /\ data \in Requests
    /\ now \in RequestNows(data)
    /\ hash_order \in Orderings(Range(<<data.From>> \o data.Attendees))
    /\ parsed_request = NoRequest
    /\ window_now = now
    /\ date_range = <<None, None>>
    /\ threads = [p \in Range(Users) |-> "none"]
    /\ results = <<>>
    /\ join_i = 0
    /\ resolution_result = NoResult
    /\ final_output = NoOutput
    /\ SlotsIdle

\* Step 1: _parse_meeting_request
ParseMeetingRequest ==
    /\ pc = "parse"
    /\ \E ai \in AIOutcomes :
           parsed_request' = _parse_meeting_request(data, hash_order, ai)
    /\ pc' = "window"
    /\ UNCHANGED <<now, hash_order, data, window_now, date_range, threads,
                   results, join_i, resolution_result, final_output, slotVars>>

\* whether _get_all_participants_events raises WEEKEND_MEETING_REQUESTED
WeekendRequested(request, t) ==
    \/ request.time_constraints = str_weekend
    \/ get_date_range_from_constraint(request.time_constraints, request.meeting_duration, t) = <<None, None>>

\* Step 2, _get_all_participants_events up to its raise, and the except
\* clause of your_meeting_assistant
RejectWeekend ==
    /\ pc = "window"
    /\ WeekendRequested(parsed_request, now)
    /\ final_output' = HandleException(data, "WEEKEND_MEETING_REQUESTED")
    /\ pc' = "done"
    /\ UNCHANGED <<now, hash_order, data, parsed_request, window_now,
                   date_range, threads, results, join_i, resolution_result,
                   slotVars>>

\* Step 2, _get_all_participants_events up to the join loop: the lookup
\* window and one started thread per participant
StartCalendarFetch ==
    /\ pc = "window"
    /\ ~WeekendRequested(parsed_request, now)
    /\ window_now' = now
    /\ date_range' = get_date_range_from_constraint(parsed_request.time_constraints, parsed_request.meeting_duration, now)
    /\ threads' = [p \in Range(Users) |->
                      IF p \in Range(parsed_request.participants)
                      THEN "running" ELSE "none"]
    /\ results' = <<>>
    /\ join_i' = 1
    /\ pc' = "join"
    /\ UNCHANGED <<now, hash_order, data, parsed_request, resolution_result,
                   final_output, slotVars>>

\* fetch_calendar(participant), run by its thread whenever it gets to it:
\* also after its join timed out and results was returned
FetchCalendar(participant) ==
    /\ pc # "done"
    /\ threads[participant] = "running"
    /\ \/ \E found \in CalendarOptions(date_range[1]) :
              /\ results' = SetItem(results, participant, found)
              /\ threads' = [threads EXCEPT ![participant] = "finished"]
       \/ /\ results' = SetItem(results, participant, <<>>)
          /\ threads' = [threads EXCEPT ![participant] = "failed"]
    /\ UNCHANGED <<pc, now, hash_order, data, parsed_request, window_now,
                   date_range, join_i, resolution_result, final_output,
                   slotVars>>

\* one round of `for thread in threads: thread.join(timeout=3)`, and the
\* return of results after the last
JoinThread ==
    /\ pc = "join"
    /\ LET participant == parsed_request.participants[join_i]
       IN  \/ /\ threads[participant] # "running"
              /\ now' = now
           \/ /\ threads[participant] = "running"
              /\ now' = PlusSeconds(now, join_timeout)
    /\ join_i' = join_i + 1
    /\ pc' = IF join_i + 1 > Len(parsed_request.participants)
             THEN "resolve" ELSE "join"
    /\ UNCHANGED <<hash_order, data, parsed_request, window_now, date_range,
                   threads, results, resolution_result, final_output,
                   slotVars>>

\* Step 3: _resolve_conflicts
ResolveConflicts ==
    /\ pc = "resolve"
    /\ resolution_result' = resolve_scheduling_conflicts(parsed_request, results, parsed_request.meeting_duration, now)
    /\ pc' = "format"
    /\ UNCHANGED <<now, hash_order, data, parsed_request, window_now,
                   date_range, threads, results, join_i, final_output,
                   slotVars>>

\* Step 3 when an abandoned fetch thread inserts its key while
\* _analyze_conflicts iterates over the dict: RuntimeError, caught by the
\* except clause of your_meeting_assistant
ResolveConflictsRace ==
    /\ pc = "resolve"
    /\ \E participant \in Range(parsed_request.participants) :
          /\ threads[participant] = "running"
          /\ Len(results) > 0
          /\ \E found \in CalendarOptions(date_range[1]) :
                 results' = SetItem(results, participant, found)
          /\ threads' = [threads EXCEPT ![participant] = "finished"]
    /\ final_output' = HandleException(data, "dictionary changed size during iteration")
    /\ pc' = "done"
    /\ UNCHANGED <<now, hash_order, data, parsed_request, window_now,
                   date_range, join_i, resolution_result, slotVars>>

\* Step 4: _format_final_output
FormatFinalOutput ==
    /\ pc = "format"
    /\ final_output' = format_output(data, resolution_result, results, hash_order)
    /\ pc' = "done"
    /\ UNCHANGED <<now, hash_order, data, parsed_request, window_now,
                   date_range, threads, results, join_i, resolution_result,
                   slotVars>>

Next ==
    \/ ParseMeetingRequest
    \/ RejectWeekend
    \/ StartCalendarFetch
    \/ \E participant \in Range(Users) : FetchCalendar(participant)
    \/ JoinThread
    \/ ResolveConflicts
    \/ ResolveConflictsRace
    \/ FormatFinalOutput

Spec ==
    Init /\ [][Next]_vars

\* ------------------------------------- the request run, every weekday

content_tuesday ==
    <<"D","e","m","o"," ","o","n"," ","t","u","e","s","d","a","y",","," ","1","5"," ","m","i","n","u","t","e","s">>

content_wednesday ==
    <<"W","e","d","n","e","s","d","a","y"," ","c","a","t","c","h","-","u","p">>

content_friday ==
    <<"W","r","a","p"," ","u","p"," ","o","n"," ","F","R","I","D","A","Y"," ","f","o","r"," ","a","n"," ","h","o","u","r">>

\* times of day of the reference instant: midnight, inside and at the end
\* of business hours, and two seconds before the day ends
TimesOfDay ==
    {<<0, 0, 0>>, <<10, 30, 0>>, <<16, 59, 59>>, <<23, 59, 58>>}

TimeNows ==
    {DayAt(d, hms) : d \in ReferenceDays, hms \in TimesOfDay}

TimeContents ==
    {content_monday, content_tuesday, content_wednesday, content_thursday,
     content_friday, content_tomorrow}

TimeRequests ==
    [Request_id : {"req-1"}, From : {Users[1]}, Attendees : {<<Users[2]>>},
     Subject : {subject_project_sync}, EmailContent : TimeContents]

\* a request of two participants for every weekday, read at every time of
\* day of every reference day
TimeInit ==
    /\ pc = "parse"
    /\ data \in TimeRequests
    /\ now \in TimeNows
    /\ hash_order \in Orderings(Range(<<data.From>> \o data.Attendees))
    /\ parsed_request = NoRequest
    /\ window_now = now
    /\ date_range = <<None, None>>
    /\ threads = [p \in Range(Users) |-> "none"]
    /\ results = <<>>
    /\ join_i = 0
    /\ resolution_result = NoResult
    /\ final_output = NoOutput
    /\ SlotsIdle

SpecTime ==
    TimeInit /\ [][Next]_vars

\* ------------------------------------------------- all participants busy

\* the datetime a recommended_time or EventStart string denotes
TimeOf(iso) ==
    fromisoformat(ReplaceOffset(iso, "+05:30", ""))

\* the busy participants of the analysis of a calendars map
BusySet(all_participants_events) ==
    Range(_analyze_conflicts(all_participants_events, 0).busy_participants)

\* the available participants of the analysis of a calendars map
AvailableSet(all_participants_events) ==
    Range(_analyze_conflicts(all_participants_events, 0).available_participants)

Dicts(keys, values) ==
    UNION {{[i \in 1..Len(o) |-> [participant |-> o[i], events |-> v[i]]] :
               v \in [1..Len(o) -> values]} :
           o \in UNION {Orderings(K) : K \in SUBSET keys}}

\* event lists of the looked-up day: none, a low one, a high one, one
\* whose summary names a high and a low keyword, a medium one before a low
EngineCalendars(start_iso) ==
    {<<>>,
     <<Event(start_iso, 10, 0, 11, 0, summary_coffee_break)>>,
     <<Event(start_iso, 10, 30, 11, 30, summary_client_call)>>,
     <<Event(start_iso, 12, 0, 13, 0, summary_client_lunch)>>,
     <<Event(start_iso, 9, 0, 9, 30, summary_standup),
       Event(start_iso, 12, 0, 13, 0, summary_team_lunch)>>}

EngineSubjects ==
    {subject_project_sync, subject_team_sync, subject_feedback_round,
     subject_weekly_call}

\* every subject for a request of at most two participants, two of them
\* for a larger request
EngineRequests ==
    {r \in [Request_id : {"req-1"}, From : {Users[1]},
            Attendees : AttendeeLists, Subject : EngineSubjects,
            EmailContent : {content_thursday, content_vague}] :
        Len(r.Attendees) >= 2 =>
            /\ r.Subject \in {subject_project_sync, subject_feedback_round}
            /\ r.EmailContent = content_thursday}

EngineNows ==
    {DayAt(FirstDay, <<10, 30, 0>>), DayAt(FirstDay + 4, <<16, 59, 59>>)}

\* the request after _get_all_participants_events has returned: every
\* calendars map the fetch phase can hand over, a participant whose fetch
\* is still running having no key
EngineInit ==
    /\ pc = "resolve"
    /\ data \in EngineRequests
    /\ now \in EngineNows
    /\ hash_order \in Orderings(Range(<<data.From>> \o data.Attendees))
    /\ parsed_request = _parse_meeting_request(data, hash_order, [ok |-> FALSE])
    /\ window_now = now
    /\ date_range = get_date_range_from_constraint(parsed_request.time_constraints, parsed_request.meeting_duration, now)
    /\ results \in Dicts(Range(parsed_request.participants), EngineCalendars(date_range[1]))
    /\ threads = [p \in Range(Users) |->
                     IF p \notin Range(parsed_request.participants) THEN "none"
                     ELSE IF p \in Keys(results) THEN "finished"
                     ELSE "running"]
    /\ join_i = Len(parsed_request.participants) + 1
    /\ resolution_result = NoResult
    /\ final_output = NoOutput
    /\ SlotsIdle

EngineNext ==
    \/ ResolveConflicts
    \/ FormatFinalOutput

SpecEngine ==
    EngineInit /\ [][EngineNext]_vars

\* C1: when every interval list of the calendars map is empty, the
\* decision is schedule_all and participants_to_include is the participant
\* list of the request.
C1_AllFreeSchedulesAll ==
    (pc = "format" /\ \A i \in 1..Len(results) : results[i].events = <<>>)
    => /\ resolution_result.action = "schedule_all"
       /\ resolution_result.participants_to_include = parsed_request.participants

\* three participants, three empty calendars
C1_Witness ==
    /\ pc = "format"
    /\ Len(parsed_request.participants) = 3
    /\ Keys(results) = Range(parsed_request.participants)
    /\ \A i \in 1..Len(results) : results[i].events = <<>>
    /\ resolution_result.action = "schedule_all"

\* whether the subject names a requires-everyone keyword
RequiresEveryone(subject) ==
    AnyIn(critical_keywords, lower(subject))

\* whether an event list holds an interval of tier low
HasLowTier(evts) ==
    LET tiers == _analyze_meeting_importance(evts)
    IN  \E i \in 1..Len(tiers) : tiers[i].importance = "low"

\* the case of C7 as the specification words it: exactly one busy
\* participant, no requires-everyone keyword, a low interval of that one
OneBusyLowNotRequired ==
    /\ pc = "format"
    /\ Cardinality(BusySet(results)) = 1
    /\ ~RequiresEveryone(parsed_request.subject)
    /\ \A p \in BusySet(results) : HasLowTier(Get(results, p))

RescheduleDecision ==
    /\ resolution_result.action = "schedule_all_with_reschedule"
    /\ resolution_result.participants_to_include = parsed_request.participants
    /\ resolution_result.reschedule_needed \in BusySet(results)

FiveActions ==
    {"schedule_all", "reschedule_tomorrow", "schedule_all_with_reschedule",
     "schedule_partial", "schedule_organizer_first"}

\* C9: the decision computed for any request, calendars map and subject
\* carries exactly one action, and it is one of the five actions.
C9_ActionIsOneOfFive ==
    pc \in {"format", "done"} => resolution_result.action \in FiveActions

\* every action chosen at least once is shown by five reachable states;
\* this one is the least frequent: feedback subject, one high conflict
C9_Witness ==
    /\ pc = "format"
    /\ resolution_result.action = "schedule_partial"
    /\ Cardinality(BusySet(results)) = 2

\* ------------------------------------------- format_output on its own

\* recommended starts as the resolver prints them: in a month, at the end
\* of a month, of February in a leap year and of the year
FormatDays ==
    {ymd2ord(2025, 7, 29), ymd2ord(2025, 7, 31), ymd2ord(2024, 2, 28),
     ymd2ord(2025, 12, 31)}

FormatTimes ==
    {<<9, 0, 0>>, <<10, 30, 37>>, <<23, 45, 0>>, <<23, 59, 59>>}

ParseableStarts ==
    {strftime(DayAt(d, hms)) : d \in FormatDays, hms \in FormatTimes}

\* strings datetime.fromisoformat rejects: month 13, 30 February, minute
\* 60, the empty string
UnparseableStarts ==
    {[year |-> 2025, month |-> 13, day |-> 1, hour |-> 10, minute |-> 0,
      second |-> 0, offset |-> "+05:30"],
     [year |-> 2025, month |-> 2, day |-> 30, hour |-> 10, minute |-> 0,
      second |-> 0, offset |-> "+05:30"],
     [year |-> 2025, month |-> 7, day |-> 31, hour |-> 10, minute |-> 60,
      second |-> 0, offset |-> "+05:30"],
     EmptyStr}

FormatDurations ==
    {15, 30, 45, 60}

\* decisions handed to format_output for the request `request`
FormatDecisions(request, order) ==
    [action : {"schedule_all", "reschedule_tomorrow"},
     recommended_time : ParseableStarts \cup UnparseableStarts,
     participants_to_include :
         {ListOfSet(<<request.From>> \o request.Attendees, order)},
     reason : {<<"All participants are available at the requested time">>},
     meeting_duration : FormatDurations]

FormatInit ==
    /\ pc = "format"
    /\ data \in [Request_id : {"req-1"}, From : {Users[1]},
                 Attendees : {<<>>, <<Users[2]>>},
                 Subject : {subject_project_sync},
                 EmailContent : {content_vague}]
    /\ now = DayAt(FirstDay, <<10, 30, 0>>)
    /\ hash_order \in Orderings(Range(<<data.From>> \o data.Attendees))
    /\ parsed_request = _parse_meeting_request(data, hash_order, [ok |-> FALSE])
    /\ window_now = now
    /\ date_range = get_date_range_from_constraint(parsed_request.time_constraints, parsed_request.meeting_duration, now)
    /\ results \in {<<>>,
                    <<[participant |-> data.From,
                       events |-> <<Event(date_range[1], 10, 0, 11, 0, summary_standup)>>]>>}
    /\ threads = [p \in Range(Users) |->
                     IF p \notin Range(parsed_request.participants) THEN "none"
                     ELSE IF p \in Keys(results) THEN "finished"
                     ELSE "running"]
    /\ join_i = Len(parsed_request.participants) + 1
    /\ resolution_result \in FormatDecisions(data, hash_order)
    /\ final_output = NoOutput
    /\ SlotsIdle

FormatNext ==
    FormatFinalOutput

SpecFormat ==
    FormatInit /\ [][FormatNext]_vars

\* a decision as the resolver makes it: a start that parses, printed with
\* the fixed offset, and a positive duration
ValidDecision(decision) ==
    /\ IsoFormatOk(ReplaceOffset(decision.recommended_time, "+05:30", ""))
    /\ decision.recommended_time.offset = "+05:30"
    /\ decision.meeting_duration > 0

\* C5: for every valid decision the output's EventStart is the recommended
\* start and EventEnd lies exactly meeting_duration minutes after it, also
\* when the end falls in the next hour, day, month or year.
C5_EndIsStartPlusDuration ==
    (pc = "done" /\ ValidDecision(resolution_result))
    => /\ final_output.EventStart = resolution_result.recommended_time
       /\ final_output.EventEnd.offset = "+05:30"
       /\ IsoFormatOk(ReplaceOffset(final_output.EventEnd, "+05:30", ""))
       /\ TotalSeconds(TimeOf(final_output.EventEnd), TimeOf(final_output.EventStart))
              = resolution_result.meeting_duration * 60

\* a meeting that starts on New Year's Eve and ends in the next year
C5_Witness ==
    /\ pc = "done"
    /\ ValidDecision(resolution_result)
    /\ final_output.EventStart.year = 2025
    /\ final_output.EventEnd.year = 2026
    /\ final_output.EventEnd.minute = 15

\* C6: when the recommended start cannot be parsed, no response is
\* produced whose EventStart or EventEnd is that invalid timestamp.
C6_FailsClosedOnUnparseableStart ==
    (pc = "done"
     /\ ~IsoFormatOk(ReplaceOffset(resolution_result.recommended_time, "+05:30", "")))
    => /\ final_output.EventStart # resolution_result.recommended_time
       /\ final_output.EventEnd # resolution_result.recommended_time

\* ----------------------------------------- find_free_slots on its own

\* largest number of events in the list handed to find_free_slots
MaxSlotEvents ==
    2

\* clock times the events start and end at: two before the working hours,
\* at their start and inside them, at their end and two after it
SlotClock ==
    {<<8, 0>>, <<8, 30>>, <<9, 0>>, <<9, 30>>, <<10, 0>>, <<17, 30>>,
     <<18, 0>>, <<19, 0>>, <<20, 0>>}

\* the day the slots are looked for: Thursday 2025-07-31
SlotDay ==
    DayAt(FirstDay + 3, <<0, 0, 0>>)

\* every event of that day between two clock times, end after start
SlotEvents ==
    {Event(strftime(SlotDay), a[1], a[2], b[1], b[2], summary_standup) :
        <<a, b>> \in {ab \in SlotClock \X SlotClock :
                         ab[1][1] * 60 + ab[1][2] < ab[2][1] * 60 + ab[2][2]}}

\* every list of at most MaxSlotEvents events, in any order: overlapping,
\* nested and repeated events included
SlotEventLists ==
    UNION {[1..n -> SlotEvents] : n \in 0..MaxSlotEvents}

SlotsInit ==
    /\ pc = "slots"
    /\ data = [Request_id |-> "req-1", From |-> Users[1], Attendees |-> <<>>,
               Subject |-> subject_project_sync, EmailContent |-> content_vague]
    /\ now = SlotDay
    /\ hash_order = <<Users[1]>>
    /\ parsed_request = NoRequest
    /\ window_now = now
    /\ date_range = FullDayRange(SlotDay)
    /\ threads = [p \in Range(Users) |-> "none"]
    /\ results = <<>>
    /\ join_i = 0
    /\ resolution_result = NoResult
    /\ final_output = NoOutput
    /\ events \in SlotEventLists
    /\ duration_mins \in {30, 60}
    /\ free_slots = <<>>
    /\ meeting_importance = <<>>

\* free_slots = find_free_slots(events, duration_mins, start_time, end_time)
FindFreeSlots ==
    /\ pc = "slots"
    /\ free_slots' = find_free_slots(events, duration_mins, date_range[1], date_range[2])
    /\ pc' = "done"
    /\ UNCHANGED <<now, hash_order, data, parsed_request, window_now,
                   date_range, threads, results, join_i, resolution_result,
                   final_output, events, duration_mins,
                   meeting_importance>>

SlotsNext ==
    FindFreeSlots

SpecSlots ==
    SlotsInit /\ [][SlotsNext]_vars

\* whether the half-open spans of a returned slot and of an event overlap
Overlaps(slot, event) ==
    /\ TotalSeconds(ParseTime(event.EndTime), ParseTime(slot.start)) > 0
    /\ TotalSeconds(ParseTime(slot.end), ParseTime(event.StartTime)) > 0

\* C4: no slot find_free_slots returns overlaps an event of its input,
\* whatever the events are: overlapping, nested, before working hours.
C4_NoSlotOverlapsAnEvent ==
    \A i \in 1..Len(free_slots) : \A j \in 1..Len(events) :
        ~Overlaps(free_slots[i], events[j])

\* ------------------------------------------------ claims on a request run

\* whether a text names Saturday, Sunday or the weekend
MentionsWeekend(text) ==
    AnyIn(manual_weekend_words, lower(text))

\* the weekend rejection: status rejected, no start, end or duration
Rejected(output) ==
    /\ "status" \in DOMAIN output.MetaData
    /\ output.MetaData.status = "rejected"
    /\ output.EventStart = EmptyStr
    /\ output.EventEnd = EmptyStr
    /\ output.Duration_mins = ""

\* C3: a request whose time constraint is weekend, or whose subject or
\* email content mentions Saturday, Sunday or weekend, ends in the
\* rejection response, whatever the calendars hold: never in a failed
\* response, never in a scheduled meeting.
C3_WeekendRequestIsRejected ==
    (pc = "done"
     /\ \/ parsed_request.time_constraints = str_weekend
        \/ MentionsWeekend(data.Subject)
        \/ MentionsWeekend(data.EmailContent))
    => Rejected(final_output)

WeekdayConstraints ==
    <<str_monday, str_tuesday, str_wednesday, str_thursday, str_friday>>

\* the first day after day `ordinal` that is weekday w (Monday = 0)
NextOccurrence(ordinal, w) ==
    CHOOSE d \in (ordinal + 1)..(ordinal + 7) :
        weekday(DayAt(d, <<0, 0, 0>>)) = w

\* C8: for a constraint monday..friday the lookup window is the full day
\* of the next such weekday after the day the window was computed on, the
\* start chosen for the constraint is on the next such weekday after the
\* day the decision was made on (1 to 7 days later, 7 when that day is the
\* weekday itself), and for thursday that start is 10:30:00.
C8_NextWeekdayWindowAndTarget ==
    \A w \in 0..4 :
        parsed_request.time_constraints = WeekdayConstraints[w + 1]
        => /\ pc \in {"join", "resolve", "format"}
              => date_range = FullDayRange(DayAt(NextOccurrence(window_now.ordinal, w), <<0, 0, 0>>))
           /\ (pc = "format" /\ resolution_result.action # "reschedule_tomorrow")
              => LET start == TimeOf(resolution_result.recommended_time)
                 IN  /\ start.ordinal = NextOccurrence(now.ordinal, w)
                     /\ w = 3 => /\ start.hour = 10
                                 /\ start.minute = 30
                                 /\ start.second = 0

\* C10: in the conflict analysis made for a request the available and the
\* busy participants are disjoint, together they are the participants of
\* the request, and a participant is available exactly when its interval
\* list is empty, whatever the fetch phase did, time-outs included.
C10_AnalysisPartitionsParticipants ==
    [][ResolveConflicts
       => LET analysis == _analyze_conflicts(results, parsed_request.meeting_duration)
              available == Range(analysis.available_participants)
              busy == Range(analysis.busy_participants)
          IN  /\ available \cap busy = {}
              /\ available \cup busy = Range(parsed_request.participants)
              /\ \A p \in Keys(results) :
                     p \in available <=> Get(results, p) = <<>>]_vars

\* the calendars map in which every participant of the request that has no
\* key yet is given an empty interval list
RECURSIVE WithEmptyFor(_, _)
WithEmptyFor(all_participants_events, participants) ==
    IF participants = <<>>
    THEN all_participants_events
    ELSE WithEmptyFor(IF Head(participants) \in Keys(all_participants_events)
                      THEN all_participants_events
                      ELSE SetItem(all_participants_events, Head(participants), <<>>),
                      Tail(participants))

\* C11: a participant whose fetch has not completed when the join gives up
\* is treated as fully available: the decision made for the request has the
\* action, the start and the included participants of the decision made
\* from the map in which that participant has an empty interval list.
C11_TimedOutCountsAsAvailable ==
    [][ResolveConflicts
       => LET completed == WithEmptyFor(results, parsed_request.participants)
              expected == resolve_scheduling_conflicts(parsed_request, completed, parsed_request.meeting_duration, now)
          IN  /\ resolution_result'.action = expected.action
              /\ resolution_result'.recommended_time = expected.recommended_time
              /\ Range(resolution_result'.participants_to_include)
                     = Range(expected.participants_to_include)]_vars

\* C12: a fetch that raises an error for one participant leaves that
\* participant with an empty interval list and every other participant's
\* list as it was, does not touch the response, and its empty list is in
\* the map before the decision is made, so that the participant is counted
\* as available by the decision the request produces.
C12_FetchErrorCountsAsAvailable ==
    [][\A participant \in Range(Users) :
           (threads[participant] = "running" /\ threads'[participant] = "failed")
           => /\ Get(results', participant) = <<>>
              /\ \A other \in Keys(results) \ {participant} :
                     Get(results', other) = Get(results, other)
              /\ final_output' = final_output
              /\ pc \in {"join", "resolve"}
              /\ resolution_result = NoResult]_vars

\* the case of C13: the analysis finds a busy and an available participant
\* and the subject names a requires-everyone keyword
SomeBusyRequiresEveryone ==
    /\ pc = "format"
    /\ BusySet(results) # {}
    /\ AvailableSet(results) # {}
    /\ RequiresEveryone(parsed_request.subject)

\* C13: whenever at least one but not all participants are busy and the
\* subject contains all, team, everyone or together, the action is
\* reschedule_tomorrow, every participant of the request is included and
\* the reason is not the reason given when everyone is busy, whatever the
\* importance tier of the busy participants' intervals.
C13_RequiresEveryoneReschedulesTomorrow ==
    SomeBusyRequiresEveryone
    => /\ resolution_result.action = "reschedule_tomorrow"
       /\ resolution_result.participants_to_include = parsed_request.participants
       /\ resolution_result.reason
              # _handle_all_busy(parsed_request, parsed_request.meeting_duration, now).reason
       /\ resolution_result.recommended_time
              = _get_tomorrow_time(parsed_request.meeting_duration, now)

\* a team subject, the sender free and the attendee busy with a coffee
\* break only, which would otherwise be moved
C13_Witness ==
    /\ SomeBusyRequiresEveryone
    /\ In(<<"t", "e", "a", "m">>, lower(parsed_request.subject))
    /\ AvailableSet(results) = {parsed_request.From}
    /\ \A p \in BusySet(results) : HasLowTier(Get(results, p))
    /\ resolution_result.action = "reschedule_tomorrow"

\* the busy participant whose conflicts the engine inspects: the first key
\* of the calendars map that has a non-empty interval list
InspectedBusy ==
    LET i == CHOOSE i \in 1..Len(results) :
                 /\ results[i].events # <<>>
                 /\ \A j \in 1..(i - 1) : results[j].events = <<>>
    IN  results[i].participant

\* some participants are busy, the meeting is not globally required and the
\* inspected busy participant has no low-importance conflict
PartialCase ==
    /\ pc = "format"
    /\ BusySet(results) # {}
    /\ AvailableSet(results) # {}
    /\ ~RequiresEveryone(parsed_request.subject)
    /\ ~HasLowTier(Get(results, InspectedBusy))

\* C14: in the partial case with a subject that does not contain
\* 'feedback', the action is schedule_organizer_first, the included
\* participants are the organizer and the available participants, and
\* exactly one follow-up entry is emitted, for the organizer with all busy
\* participants, at the reference instant plus two hours cut back to the
\* top of the hour.
C14_OrganizerFirstWithOneFollowUp ==
    (PartialCase /\ ~In(str_feedback, lower(parsed_request.subject)))
    => /\ resolution_result.action = "schedule_organizer_first"
       /\ Range(resolution_result.participants_to_include)
              = {parsed_request.From} \cup AvailableSet(results)
       /\ "follow_up_meetings" \in DOMAIN resolution_result
       /\ Len(resolution_result.follow_up_meetings) = 1
       /\ LET follow_up == resolution_result.follow_up_meetings[1]
              time == TimeOf(follow_up.time)
          IN  /\ Range(follow_up.participants)
                     = {parsed_request.From} \cup BusySet(results)
              /\ time.minute = 0
              /\ time.second = 0
              /\ TotalSeconds(time, now) = 7200 - (60 * now.minute + now.second)

\* three participants at 16:59:59: the sender and one attendee free, the
\* other attendee on a client call; the follow-up is at 18:00:00
C14_Witness ==
    /\ PartialCase
    /\ Len(parsed_request.participants) = 3
    /\ Cardinality(AvailableSet(results)) = 2
    /\ now.second = 59
    /\ resolution_result.action = "schedule_organizer_first"
    /\ TimeOf(resolution_result.follow_up_meetings[1].time).hour = 18

\* C15: in the partial case with a subject that contains 'feedback', the
\* action is schedule_partial, the included participants are exactly the
\* available participants, each once and no busy one among them, no
\* follow-up meeting is emitted and every busy participant is recorded as
\* pending follow-up.
C15_FeedbackSchedulesPartial ==
    (PartialCase /\ In(str_feedback, lower(parsed_request.subject)))
    => /\ resolution_result.action = "schedule_partial"
       /\ Range(resolution_result.participants_to_include) = AvailableSet(results)
       /\ Len(resolution_result.participants_to_include)
              = Cardinality(AvailableSet(results))
       /\ Range(resolution_result.participants_to_include) \cap BusySet(results) = {}
       /\ "follow_up_meetings" \notin DOMAIN resolution_result
       /\ "follow_up_needed" \in DOMAIN resolution_result
       /\ Range(resolution_result.follow_up_needed) = BusySet(results)

\* a feedback round of three: the sender free, both attendees on a client
\* call
C15_Witness ==
    /\ PartialCase
    /\ In(str_feedback, lower(parsed_request.subject))
    /\ AvailableSet(results) = {parsed_request.From}
    /\ Cardinality(BusySet(results)) = 2
    /\ resolution_result.action = "schedule_partial"
    /\ Len(resolution_result.follow_up_needed) = 2

\* the calendars map with its keys in the order of a participant list
RECURSIVE InOrderOf(_, _)
InOrderOf(all_participants_events, participants) ==
    IF participants = <<>>
    THEN <<>>
    ELSE (IF Head(participants) \in Keys(all_participants_events)
          THEN <<[participant |-> Head(participants),
                  events |-> Get(all_participants_events, Head(participants))]>>
          ELSE <<>>)
         \o InOrderOf(all_participants_events, Tail(participants))

\* the participant list of the request as it was sent, and as it was parsed
ParticipantLists ==
    {<<data.From>> \o data.Attendees, parsed_request.participants}

\* C16: when several participants are busy, the participant whose
\* conflicts are inspected is the first busy participant of the participant
\* list of the request, so that the action and the reschedule target are
\* those of the calendars map taken in list order, whatever the order in
\* which the fetches completed.
C16_InspectsFirstBusyInListOrder ==
    [][(/\ ResolveConflicts
        /\ Cardinality(BusySet(results)) >= 2
        /\ AvailableSet(results) # {}
        /\ ~RequiresEveryone(parsed_request.subject))
       => \E participants \in ParticipantLists :
              LET in_order == InOrderOf(results, participants)
                  expected == resolve_scheduling_conflicts(parsed_request, in_order, parsed_request.meeting_duration, now)
              IN  /\ InspectedBusy = _analyze_conflicts(in_order, parsed_request.meeting_duration).busy_participants[1]
                  /\ resolution_result'.action = expected.action
                  /\ "reschedule_needed" \in DOMAIN expected
                         => /\ "reschedule_needed" \in DOMAIN resolution_result'
                            /\ resolution_result'.reschedule_needed = expected.reschedule_needed]_vars

\* C17: the result is a function of the request, the calendars and one
\* reference instant: the decision made for a request, its recommended
\* start and follow-up time included, is the decision computed at the
\* instant from which the lookup window of that request was derived.
C17_OneReferenceInstant ==
    [][ResolveConflicts
       => /\ date_range = get_date_range_from_constraint(parsed_request.time_constraints, parsed_request.meeting_duration, window_now)
          /\ resolution_result' = resolve_scheduling_conflicts(parsed_request, results, parsed_request.meeting_duration, window_now)]_vars

\* C18: once the fetch phase has returned the calendars map to the
\* decision engine, no fetch that completes late adds to it or changes it:
\* the map is the same from the analysis to the assembly of the output.
C18_MapFrozenAfterFetchPhase ==
    [][(pc \in {"resolve", "format"}) => (results' = results)]_vars

\* a request whose constraint is 'tomorrow', past the derivation of its
\* lookup window
TomorrowRequest ==
    /\ pc \notin {"parse", "window", "slots"}
    /\ parsed_request.time_constraints = str_tomorrow

\* C19: for constraint 'tomorrow' the request is rejected exactly when the
\* reference day is Friday or Saturday, and otherwise the lookup window is
\* the whole calendar day after the reference instant, 00:00:00 to 23:59:59.
C19_TomorrowWindowOrRejection ==
    TomorrowRequest
    => LET next_day == ord2ymd(window_now.ordinal + 1)
           at(h, m, s) == [year |-> next_day[1], month |-> next_day[2],
                           day |-> next_day[3], hour |-> h, minute |-> m,
                           second |-> s, offset |-> "+05:30"]
       IN  IF weekday(window_now) \in {4, 5}
           THEN /\ pc = "done"
                /\ Rejected(final_output)
                /\ resolution_result = NoResult
           ELSE /\ ~Rejected(final_output)
                /\ date_range = <<at(0, 0, 0), at(23, 59, 59)>>

\* asked on a Friday at 16:59:59: rejected
C19_Witness ==
    /\ TomorrowRequest
    /\ weekday(window_now) = 4
    /\ window_now.hour = 16
    /\ Rejected(final_output)

\* ------------------------------ _analyze_meeting_importance on its own

\* largest number of events in the list handed to
\* _analyze_meeting_importance
MaxImportanceEvents == 2

summary_urgent_training ==
    <<"U","R","G","E","N","T"," ","t","r","a","i","n","i","n","g">>

summary_project_review ==
    <<"P","r","o","j","e","c","t"," ","r","e","v","i","e","w">>

\* subjects with no keyword, with keywords of one tier and of two tiers, in
\* small letters and in capitals, and the empty subject
ImportanceSummaries ==
    {summary_coffee_break, summary_client_call, summary_standup,
     summary_client_lunch, summary_team_lunch, summary_urgent_training,
     summary_project_review, <<>>}

ImportanceEventLists ==
    UNION {[1..n -> {Event(FullDayRange(SlotDay)[1], 10, 0, 11, 0, summary) :
                         summary \in ImportanceSummaries}] :
               n \in 0..MaxImportanceEvents}

ImportanceInit ==
    /\ pc = "importance"
    /\ data = [Request_id |-> "req-1", From |-> Users[1], Attendees |-> <<>>,
               Subject |-> subject_project_sync, EmailContent |-> content_vague]
    /\ now = SlotDay
    /\ hash_order = <<Users[1]>>
    /\ parsed_request = NoRequest
    /\ window_now = now
    /\ date_range = FullDayRange(SlotDay)
    /\ threads = [p \in Range(Users) |-> "none"]
    /\ results = <<>>
    /\ join_i = 0
    /\ resolution_result = NoResult
    /\ final_output = NoOutput
    /\ events \in ImportanceEventLists
    /\ duration_mins = 0
    /\ free_slots = <<>>
    /\ meeting_importance = <<>>

\* meeting_importance = _analyze_meeting_importance(events)
AnalyzeMeetingImportance ==
    /\ pc = "importance"
    /\ meeting_importance' = _analyze_meeting_importance(events)
    /\ pc' = "done"
    /\ UNCHANGED <<now, hash_order, data, parsed_request, window_now,
                   date_range, threads, results, join_i, resolution_result,
                   final_output, events, duration_mins, free_slots>>

ImportanceNext ==
    AnalyzeMeetingImportance

SpecImportance ==
    ImportanceInit /\ [][ImportanceNext]_vars

\* the importance tier of a subject as the specification words it
Tier(summary) ==
    IF AnyIn(importance_keywords_high, lower(summary)) THEN "high"
    ELSE IF AnyIn(importance_keywords_low, lower(summary)) THEN "low"
    ELSE "medium"

\* C20: the tier of an interval depends on its subject only, whatever the
\* case of its letters: high with a high keyword, also next to a low one,
\* low with a low keyword and no high one, medium otherwise; and an
\* interval gets the tier it gets when it is classified alone.
C20_TierDependsOnSubjectOnly ==
    pc = "done"
    => /\ Len(meeting_importance) = Len(events)
       /\ \A j \in 1..Len(events) :
              /\ meeting_importance[j].importance = Tier(events[j].Summary)
              /\ meeting_importance[j] = _analyze_meeting_importance(<<events[j]>>)[1]
              /\ _analyze_meeting_importance(<<[events[j] EXCEPT !.Summary = lower(@)]>>)[1].importance
                     = meeting_importance[j].importance

\* 'Client LUNCH' before 'Team lunch': high, then low
C20_Witness ==
    /\ pc = "done"
    /\ Len(events) = 2
    /\ events[1].Summary = summary_client_lunch
    /\ events[2].Summary = summary_team_lunch
    /\ Len(meeting_importance) = 2
    /\ meeting_importance[1].importance = "high"
    /\ meeting_importance[2].importance = "low"

\* 09:00 of the day the slots are looked for
BusinessStart ==
    [SlotDay EXCEPT !.hour = 9, !.tzinfo = "+05:30"]

\* 18:00 of that day
BusinessEnd ==
    [SlotDay EXCEPT !.hour = 18, !.tzinfo = "+05:30"]

\* no event, or every event starts at least duration_mins after 09:00
RoomBeforeFirstEvent ==
    \A j \in 1..Len(events) :
        TotalSeconds(ParseTime(events[j].StartTime), BusinessStart) >= duration_mins * 60

\* C21: find_free_slots returns the leading slot, 09:00 to 09:00 plus the
\* duration, exactly when there is no event or the first event starts at
\* least the duration after 09:00, a start exactly at 09:00 plus the
\* duration included (a slot of the same span that follows an event ending
\* at 09:00 is not counted); for no event and 30 minutes the result is the
\* one slot 09:00-09:30.
C21_LeadingSlotWhenRoomBeforeFirstEvent ==
    pc = "done"
    => /\ RoomBeforeFirstEvent
          => /\ Len(free_slots) >= 1
             /\ free_slots[1] = Slot(BusinessStart, duration_mins)
       /\ (/\ ~RoomBeforeFirstEvent
           /\ \A j \in 1..Len(events) : ParseTime(events[j].EndTime) # BusinessStart)
          => \A i \in 1..Len(free_slots) :
                 free_slots[i] # Slot(BusinessStart, duration_mins)
       /\ (events = <<>> /\ duration_mins = 30)
          => free_slots = <<[start |-> isoformat(BusinessStart),
                             end |-> isoformat([BusinessStart EXCEPT !.minute = 30])]>>

\* C22: every slot find_free_slots returns lies inside the business
\* window: it starts at or after 09:00 and ends at or before 18:00 of the
\* day, also when events end before 09:00 or gaps begin after 18:00.
C22_SlotsInsideBusinessWindow ==
    pc = "done"
    => \A i \in 1..Len(free_slots) :
           /\ TotalSeconds(ParseTime(free_slots[i].start), BusinessStart) >= 0
           /\ TotalSeconds(BusinessEnd, ParseTime(free_slots[i].end)) >= 0

\* ------------------------- find_free_slots on any list of events

\* an event given in UTC, 05:00Z-05:30Z, which is 10:30-11:00 at +05:30
SlotEventUtc ==
    [Event(strftime(SlotDay), 5, 0, 5, 30, summary_standup)
        EXCEPT !.StartTime.offset = "Z", !.EndTime.offset = "Z"]

\* an event early in the morning, 07:00-07:30 at +05:30
SlotEventEarly ==
    Event(strftime(SlotDay), 7, 0, 7, 30, summary_standup)

\* an event whose start is no timestamp (month 13)
SlotEventUnparseable ==
    [Event(strftime(SlotDay), 10, 0, 11, 0, summary_standup)
        EXCEPT !.StartTime.month = 13]

\* an event whose times carry no offset
SlotEventNaive ==
    [Event(strftime(SlotDay), 12, 0, 13, 0, summary_standup)
        EXCEPT !.StartTime.offset = "", !.EndTime.offset = ""]

AnySlotEvents ==
    SlotEvents \cup {SlotEventUtc, SlotEventEarly, SlotEventUnparseable,
                     SlotEventNaive}

AnySlotsInit ==
    /\ pc = "slots"
    /\ data = [Request_id |-> "req-1", From |-> Users[1], Attendees |-> <<>>,
               Subject |-> subject_project_sync, EmailContent |-> content_vague]
    /\ now = SlotDay
    /\ hash_order = <<Users[1]>>
    /\ parsed_request = NoRequest
    /\ window_now = now
    /\ date_range = FullDayRange(SlotDay)
    /\ threads = [p \in Range(Users) |-> "none"]
    /\ results = <<>>
    /\ join_i = 0
    /\ resolution_result = NoResult
    /\ final_output = NoOutput
    /\ events \in UNION {[1..n -> AnySlotEvents] : n \in 0..MaxSlotEvents}
    /\ duration_mins \in {30, 60}
    /\ free_slots = <<>>
    /\ meeting_importance = <<>>

SpecSlotsAny ==
    AnySlotsInit /\ [][SlotsNext]_vars

\* C23: the list find_free_slots returns is in chronological order, each
\* slot starting no earlier than the slot before it, for every list of
\* events, sorted or not, overlapping or not; and for a list with a
\* malformed event a list is returned all the same.
C23_SlotsInChronologicalOrder ==
    pc = "done"
    => /\ \A i \in 1..(Len(free_slots) - 1) :
              TotalSeconds(ParseTime(free_slots[i + 1].start), ParseTime(free_slots[i].start)) >= 0
       /\ \A i \in 1..Len(free_slots) : ParseOk(free_slots[i].start)

\* how often e occurs in the list xs
Count(xs, e) ==
    Cardinality({k \in DOMAIN xs : xs[k] = e})

\* the new meeting of an assembled output: from EventStart to EventEnd,
\* with the subject of the request and the included participants
NewMeeting ==
    [StartTime |-> final_output.EventStart,
     EndTime |-> final_output.EventEnd,
     NumAttendees |-> Len(resolution_result.participants_to_include),
     Attendees |-> resolution_result.participants_to_include,
     Summary |-> data.Subject]

\* C24: the assembled output lists every participant of the request,
\* sender and attendees, exactly once; the events of each are the
\* intervals the calendars map holds for it, each as often as there and
\* unchanged, and the new meeting once if the participant is included and
\* not at all otherwise; and each list is in the order of the start times.
C24_OutputListsEveryParticipantOnce ==
    (pc = "done" /\ resolution_result # NoResult)
    => LET attendees == final_output.Attendees
           original == {data.From} \cup Range(data.Attendees)
       IN  /\ {attendees[i].email : i \in 1..Len(attendees)} = original
           /\ Len(attendees) = Cardinality(original)
           /\ \A i \in 1..Len(attendees) :
                  LET p == attendees[i].email
                      evts == attendees[i].events
                      existing == IF p \in Keys(results) THEN Get(results, p) ELSE <<>>
                      included == p \in Range(resolution_result.participants_to_include)
                  IN  /\ Len(evts) = Len(existing) + (IF included THEN 1 ELSE 0)
                      /\ \A e \in Range(existing) : Count(evts, e) = Count(existing, e)
                      /\ Count(evts, NewMeeting) = (IF included THEN 1 ELSE 0)
                      /\ \A k \in 1..(Len(evts) - 1) :
                             TotalSeconds(ParseTime(evts[k + 1].StartTime), ParseTime(evts[k].StartTime)) >= 0

\* three participants, the sender and one attendee on a client call, the
\* other attendee free: the sender gets the new meeting after its call,
\* the busy attendee keeps its call only
C24_Witness ==
    /\ pc = "done"
    /\ resolution_result.action = "schedule_organizer_first"
    /\ Len(final_output.Attendees) = 3
    /\ Cardinality(BusySet(results)) = 2
    /\ data.From \in BusySet(results)
    /\ \E i, j \in 1..3 :
           /\ final_output.Attendees[i].email = data.From
           /\ Len(final_output.Attendees[i].events) = 2
           /\ final_output.Attendees[i].events[2] = NewMeeting
           /\ final_output.Attendees[j].email \in BusySet(results) \ {data.From}
           /\ final_output.Attendees[j].events = Get(results, final_output.Attendees[j].email)

\* ------------------------- requests whose constraint names no weekday

\* reference instants: every clock time below on each of NowDays days
FlexibleTimes ==
    {<<0, 0, 0>>, <<7, 59, 59>>, <<8, 0, 0>>, <<9, 0, 0>>, <<10, 30, 0>>,
     <<16, 0, 0>>, <<16, 59, 59>>, <<17, 0, 0>>, <<23, 59, 58>>}

FlexibleNows ==
    {DayAt(d, hms) : d \in ReferenceDays, hms \in FlexibleTimes}

\* a vague email, parsed by hand or by the language model, and an email
\* that asks for tomorrow
FlexibleAIOutcomes ==
    {[ok |-> FALSE],
     [ok |-> TRUE, reply |-> [meeting_duration |-> 30,
                              time_constraints |-> str_flexible]],
     [ok |-> TRUE, reply |-> [meeting_duration |-> 45,
                              time_constraints |-> constraint_next_week]]}

\* the request after _get_all_participants_events has returned, for a
\* sender without attendees: no key, no event, or a coffee break
FlexibleInit ==
    /\ pc = "resolve"
    /\ data \in [Request_id : {"req-1"}, From : {Users[1]}, Attendees : {<<>>},
                 Subject : {subject_project_sync},
                 EmailContent : {content_vague, content_tomorrow}]
    /\ now \in FlexibleNows
    /\ hash_order = <<data.From>>
    /\ \E ai \in FlexibleAIOutcomes :
           parsed_request = _parse_meeting_request(data, hash_order, ai)
    /\ window_now = now
    /\ date_range = get_date_range_from_constraint(parsed_request.time_constraints, parsed_request.meeting_duration, now)
    /\ date_range # <<None, None>>
    /\ results \in Dicts({data.From}, {<<>>, <<Event(date_range[1], 10, 0, 11, 0, summary_coffee_break)>>})
    /\ threads = [p \in Range(Users) |->
                     IF p \notin Range(parsed_request.participants) THEN "none"
                     ELSE IF p \in Keys(results) THEN "finished"
                     ELSE "running"]
    /\ join_i = Len(parsed_request.participants) + 1
    /\ resolution_result = NoResult
    /\ final_output = NoOutput
    /\ SlotsIdle

SpecFlexible ==
    FlexibleInit /\ [][EngineNext]_vars

\* the first Monday after the day with ordinal d
MondayAfter(d) ==
    CHOOSE m \in (d + 1)..(d + 7) : (m + 6) % 7 = 0

\* C25: for a constraint that names no weekday (flexible, next available
\* time, tomorrow, next week) and any reference instant, the target start
\* is a full hour from 09:00 to 17:00 on a Monday-Friday, strictly later
\* than the reference instant, and it is 09:00 on the following Monday when
\* the first candidate, the full hour after the reference instant plus one
\* hour, falls on a Saturday or Sunday.
C25_FlexibleTargetInBusinessHours ==
    (pc \in {"format", "done"} /\ resolution_result.action # "reschedule_tomorrow")
    => LET start == TimeOf(resolution_result.recommended_time)
           candidate == PlusHours(now, 1)
       IN  /\ resolution_result.recommended_time.offset = "+05:30"
           /\ start.minute = 0
           /\ start.second = 0
           /\ start.hour \in 9..17
           /\ (start.ordinal + 6) % 7 \in 0..4
           /\ TotalSeconds(start, now) > 0
           /\ (candidate.ordinal + 6) % 7 \in {5, 6}
              => /\ start.ordinal = MondayAfter(candidate.ordinal)
                 /\ start.hour = 9

\* asked on a Friday at 23:59:58: the candidate is Saturday 00:00, the
\* target Monday 09:00
C25_Witness ==
    /\ pc = "format"
    /\ resolution_result.action = "schedule_all"
    /\ weekday(now) = 4
    /\ now.hour = 23
    /\ TimeOf(resolution_result.recommended_time).ordinal = now.ordinal + 3
    /\ TimeOf(resolution_result.recommended_time).hour = 9

\* the participants a decision names for later: follow_up_needed and the
\* participants of every follow_up_meetings entry
FollowUpNamed(decision) ==
    (IF "follow_up_needed" \in DOMAIN decision
     THEN Range(decision.follow_up_needed) ELSE {})
    \cup
    (IF "follow_up_meetings" \in DOMAIN decision
     THEN UNION {Range(decision.follow_up_meetings[i].participants) :
                    i \in 1..Len(decision.follow_up_meetings)}
     ELSE {})

\* C26: no participant is silently dropped by a decision: whatever the
\* action, each participant of the request is among the included
\* participants or is named in the follow-up data of the decision
\* (follow_up_needed or a follow_up_meetings entry).
C26_NoParticipantDropped ==
    (pc \in {"format", "done"} /\ "participants_to_include" \in DOMAIN resolution_result)
    => \A p \in Range(parsed_request.participants) :
           \/ p \in Range(resolution_result.participants_to_include)
           \/ p \in FollowUpNamed(resolution_result)

\* C27: for every request that is not rejected, the recommended start
\* chosen for the original constraint (actions schedule_all,
\* schedule_all_with_reschedule, schedule_partial and
\* schedule_organizer_first) lies inside the lookup window that was
\* resolved for the same constraint and used to fetch the calendars,
\* whatever the constraint, 'tomorrow' and 'next week' included.
C27_StartInsideLookupWindow ==
    (/\ pc \in {"format", "done"}
     /\ resolution_result.action \in {"schedule_all", "schedule_all_with_reschedule",
                                      "schedule_partial", "schedule_organizer_first"})
    => LET start == TimeOf(resolution_result.recommended_time)
       IN  /\ TotalSeconds(start, TimeOf(date_range[1])) >= 0
           /\ TotalSeconds(TimeOf(date_range[2]), start) >= 0

\* a start on Monday to Friday whose hour is one the default branch of
\* _find_optimal_time accepts, 9 to 17
InBusinessHours(iso) ==
    LET t == TimeOf(iso)
    IN  /\ weekday(t) \in 0..4
        /\ t.hour \in 9..17

\* C28: every meeting time the engine proposes, the recommended start of
\* any action and the time of every follow-up meeting, falls on a Monday
\* to Friday within business hours, whatever the reference instant.
C28_ProposedTimesInBusinessHours ==
    (pc \in {"format", "done"} /\ "recommended_time" \in DOMAIN resolution_result)
    => /\ InBusinessHours(resolution_result.recommended_time)
       /\ "follow_up_meetings" \in DOMAIN resolution_result
          => \A i \in 1..Len(resolution_result.follow_up_meetings) :
                 InBusinessHours(resolution_result.follow_up_meetings[i].time)

\* the new meeting events of an assembled output: the events whose
\* attendees are the included participants of the decision
NewMeetingEvents ==
    UNION {{e \in Range(final_output.Attendees[i].events) :
               e.Attendees = resolution_result.participants_to_include} :
           i \in 1..Len(final_output.Attendees)}

\* C29: in every decision the included participants form a set, no
\* participant appearing twice (the organizer is not duplicated when the
\* organizer is also available), so that NumAttendees of the new meeting
\* event is the number of distinct included participants; and a
\* participant with a non-empty calendar is included only by the actions
\* reschedule_tomorrow and schedule_all_with_reschedule.
C29_IncludedParticipantsFormSet ==
    (pc = "done" /\ "participants_to_include" \in DOMAIN resolution_result)
    => LET included == resolution_result.participants_to_include
       IN  /\ \A p \in Range(included) : Count(included, p) = 1
           /\ \A e \in NewMeetingEvents :
                  e.NumAttendees = Cardinality(Range(included))
           /\ Range(included) \cap BusySet(results) # {}
              => resolution_result.action \in {"reschedule_tomorrow", "schedule_all_with_reschedule"}

====
